---- MODULE Spec2Model ----
(***************************************************************************)
(* Model of lib/customConfigParser.py: customConfigParser._read, the       *)
(* line-by-line INI reader that keeps the first value of a duplicated      *)
(* option and recovers from a missing section header.                      *)
(*                                                                         *)
(* Text is modelled character by character: a string is a sequence of      *)
(* one-character strings, a line is the raw line without its terminating   *)
(* line break (which str.strip removes anyway).                            *)
(***************************************************************************)
EXTENDS Integers, Sequences, FiniteSets, TLC

\* palette         the lines the input stream may deliver in this run
\* fp              the lines delivered so far, in order
\* lineno .. exc   the locals of _read and the parser's dicts; pc is where
\*                 _read stands: "scan", "returned" or "raised" (with exc)
\* log             for each delivered line, the branch it took, the section
\*                 and option that were current, whether it stored/appended
\* ref             the unmodified RawConfigParser._read run on the same lines
\* classify        the comment stripping of lines 48-68 run on its own: the
\*                 line, the inline prefixes, and once done the comment
\*                 start and the content
VARIABLES palette, fp, lineno, elements_added, cursect, sectname, optname,
          indent_level, e, sections, defaults, proxies, pc, exc, log, ref,
          classify

parser_vars == <<palette, fp, lineno, elements_added, cursect, sectname, optname,
                 indent_level, e, sections, defaults, proxies, pc, exc, log, ref>>

vars == <<parser_vars, classify>>

(* ---------------------------------------------------------------------- *)
(* Bounds                                                                  *)
(* ---------------------------------------------------------------------- *)
MaxLines == 4
MaxLineLen == 6

(* ---------------------------------------------------------------------- *)
(* Program constants and the configuration fixed by __init__               *)
(* ---------------------------------------------------------------------- *)
\* sys.maxsize: larger than any index into a line
maxsize == 2147483647

\* Python's None where a string is expected; no string equals it
None == <<"None">>

\* a configuration that strips "#" comments after a value
inline_comment_prefixes_hash == << <<"#">> >>

inline_comment_prefixes == <<>>
comment_prefixes == <<>>
\* a configuration in which a blank line ends the value
empty_lines_in_values_off == FALSE

empty_lines_in_values == TRUE
strict == FALSE
default_section == <<"D", "E", "F", "A", "U", "L", "T">>
delimiter == "="

TotallyFakeSectionHeader ==
    <<"T", "o", "t", "a", "l", "l", "y", "F", "a", "k", "e",
      "S", "e", "c", "t", "i", "o", "n", "H", "e", "a", "d", "e", "r">>

(* ---------------------------------------------------------------------- *)
(* String primitives                                                       *)
(* ---------------------------------------------------------------------- *)
Min(a, b) == IF a <= b THEN a ELSE b

\* str.isspace for one character
isspace(c) == c \in {" ", "\t", "\n", "\r"}

\* str.lower for one character
LowerChar(c) ==
    CASE c = "A" -> "a" [] c = "B" -> "b" [] c = "C" -> "c" [] c = "D" -> "d"
      [] c = "E" -> "e" [] c = "F" -> "f" [] c = "H" -> "h" [] c = "L" -> "l"
      [] c = "N" -> "n" [] c = "S" -> "s" [] c = "T" -> "t" [] c = "U" -> "u"
      [] OTHER -> c

lower(s) == [i \in 1..Len(s) |-> LowerChar(s[i])]

\* number of leading whitespace characters of s
LeadingSpace(s) ==
    IF \A i \in 1..Len(s) : isspace(s[i]) THEN Len(s)
    ELSE (CHOOSE i \in 1..Len(s) :
              /\ ~isspace(s[i])
              /\ \A j \in 1..(i - 1) : isspace(s[j])) - 1

\* number of trailing whitespace characters of s
TrailingSpace(s) ==
    IF \A i \in 1..Len(s) : isspace(s[i]) THEN Len(s)
    ELSE Len(s) - (CHOOSE i \in 1..Len(s) :
                       /\ ~isspace(s[i])
                       /\ \A j \in (i + 1)..Len(s) : isspace(s[j]))

lstrip(s) == SubSeq(s, LeadingSpace(s) + 1, Len(s))
rstrip(s) == SubSeq(s, 1, Len(s) - TrailingSpace(s))
strip(s) == lstrip(rstrip(s))

\* s[i:i+len(p)] == p, i a 0-based index
OccursAt(s, p, i) ==
    /\ i >= 0
    /\ i + Len(p) <= Len(s)
    /\ \A j \in 1..Len(p) : s[i + j] = p[j]

\* str.find(p, start): lowest 0-based index >= start where p occurs, else -1
find(s, p, start) ==
    IF \E i \in start..Len(s) : OccursAt(s, p, i)
    THEN CHOOSE i \in start..Len(s) :
             /\ OccursAt(s, p, i)
             /\ \A j \in start..(i - 1) : ~OccursAt(s, p, j)
    ELSE -1

startswith(s, p) == OccursAt(s, p, 0)

\* "\n".join(lines)
RECURSIVE join(_)
join(lines) ==
    IF Len(lines) = 0 THEN <<>>
    ELSE IF Len(lines) = 1 THEN lines[1]
    ELSE lines[1] \o <<"\n">> \o join(Tail(lines))

(* ---------------------------------------------------------------------- *)
(* Insertion-ordered dict: a sequence of [k, v] entries                    *)
(* ---------------------------------------------------------------------- *)
Keys(d) == [i \in 1..Len(d) |-> d[i].k]
Has(d, k) == \E i \in 1..Len(d) : d[i].k = k
Get(d, k) == d[CHOOSE i \in 1..Len(d) : d[i].k = k].v
Put(d, k, v) ==
    IF Has(d, k)
    THEN [i \in 1..Len(d) |-> IF d[i].k = k THEN [k |-> k, v |-> v] ELSE d[i]]
    ELSE Append(d, [k |-> k, v |-> v])

(* ---------------------------------------------------------------------- *)
(* Option values: None (valueless), a list of physical lines, or, after    *)
(* the join, one string                                                    *)
(* ---------------------------------------------------------------------- *)
NoValue == [tag |-> "None", lines |-> <<>>, str |-> <<>>]
Lines(l) == [tag |-> "list", lines |-> l, str |-> <<>>]
Str(s) == [tag |-> "str", lines |-> <<>>, str |-> s]

(* ---------------------------------------------------------------------- *)
(* Line classifier: comment stripping, content, indentation                *)
(* ---------------------------------------------------------------------- *)
\* one pass of the for-loop over the prefixes still to be searched;
\* inl is a sequence of [prefix, index] (dict.fromkeys(prefixes, -1))
RECURSIVE InlinePass(_, _, _, _, _)
InlinePass(line, inl, i, next_prefixes, cs) ==
    IF i > Len(inl) THEN [next |-> next_prefixes, cs |-> cs]
    ELSE LET prefix == inl[i].prefix
             line_index == find(line, prefix, inl[i].index + 1)
         IN IF line_index = -1
            THEN InlinePass(line, inl, i + 1, next_prefixes, cs)
            ELSE InlinePass(line, inl, i + 1,
                     Append(next_prefixes, [prefix |-> prefix, index |-> line_index]),
                     IF line_index = 0 \/ (line_index > 0 /\ isspace(line[line_index]))
                     THEN Min(cs, line_index) ELSE cs)

\* the while-loop: repeat passes until a comment start is found or no
\* prefix occurs any more
RECURSIVE InlineLoop(_, _, _)
InlineLoop(line, inl, cs) ==
    IF cs = maxsize /\ inl # <<>>
    THEN LET r == InlinePass(line, inl, 1, <<>>, cs)
         IN InlineLoop(line, r.next, r.cs)
    ELSE cs

\* comment_start before it is turned into None: maxsize means no comment
comment_start_of(line, inline_prefixes, full_prefixes) ==
    LET cs == InlineLoop(line,
                  [i \in 1..Len(inline_prefixes) |->
                      [prefix |-> inline_prefixes[i], index |-> -1]],
                  maxsize)
    IN IF \E i \in 1..Len(full_prefixes) : startswith(strip(line), full_prefixes[i])
       THEN 0 ELSE cs

\* value = line[:comment_start].strip()
content_of(line, inline_prefixes, full_prefixes) ==
    strip(SubSeq(line, 1,
              Min(comment_start_of(line, inline_prefixes, full_prefixes), Len(line))))

comment_start(line) == comment_start_of(line, inline_comment_prefixes, comment_prefixes)
value(line) == content_of(line, inline_comment_prefixes, comment_prefixes)

\* the indentation measured on the stripped content instead of the raw line
cur_indent_level_of_content(line) ==
    IF LeadingSpace(strip(line)) = Len(strip(line)) THEN 0 ELSE LeadingSpace(strip(line))

\* NONSPACECRE.search(line): offset of the first non-space character, else 0
cur_indent_level(line) ==
    IF LeadingSpace(line) = Len(line) THEN 0 ELSE LeadingSpace(line)

(* ---------------------------------------------------------------------- *)
(* The two regular expressions                                             *)
(* ---------------------------------------------------------------------- *)
\* SECTCRE.match(v):  \[(?P<header>.+)\]  anchored at the start, .+ greedy
SECTCRE(v) ==
    LET closes == {j \in 3..Len(v) : v[j] = "]"}
    IN IF Len(v) >= 3 /\ v[1] = "[" /\ closes # {}
       THEN [matched |-> TRUE,
             header |-> SubSeq(v, 2,
                 (CHOOSE j \in closes : \A k \in closes : k <= j) - 1)]
       ELSE [matched |-> FALSE, header |-> None]

\* the option pattern without allow_no_value: the delimiter is required
\*   (?P<option>.*?)\s*(?P<vi>=)\s*(?P<value>.*)$
optcre_delimited(v) ==
    IF \E p \in 1..Len(v) : v[p] = delimiter
    THEN LET p == CHOOSE q \in 1..Len(v) :
                      v[q] = delimiter /\ \A j \in 1..(q - 1) : v[j] # delimiter
         IN [matched |-> TRUE, option |-> rstrip(SubSeq(v, 1, p - 1)), vi |-> TRUE,
             value |-> lstrip(SubSeq(v, p + 1, Len(v)))]
    ELSE [matched |-> FALSE, option |-> None, vi |-> FALSE, value |-> None]

\* _optcre.match(v) with allow_no_value:
\*   (?P<option>.*?)\s*(?:(?P<vi>=)\s*(?P<value>.*))?$
\* the lazy option group ends where the rest is spaces, then either the
\* end of the text or the delimiter and anything
optcre(v) ==
    LET RestOk(i) ==
            \/ \A j \in (i + 1)..Len(v) : isspace(v[j])
            \/ \E p \in (i + 1)..Len(v) :
                   /\ v[p] = delimiter
                   /\ \A j \in (i + 1)..(p - 1) : isspace(v[j])
        cut == CHOOSE i \in 0..Len(v) :
                   RestOk(i) /\ \A j \in 0..(i - 1) : ~RestOk(j)
        rest == lstrip(SubSeq(v, cut + 1, Len(v)))
    IN IF \E i \in 0..Len(v) : RestOk(i)
       THEN IF rest # <<>> /\ rest[1] = delimiter
            THEN [matched |-> TRUE, option |-> SubSeq(v, 1, cut), vi |-> TRUE,
                  value |-> lstrip(Tail(rest))]
            ELSE [matched |-> TRUE, option |-> SubSeq(v, 1, cut), vi |-> FALSE,
                  value |-> None]
       ELSE [matched |-> FALSE, option |-> None, vi |-> FALSE, value |-> None]

\* RawConfigParser.optionxform
optionxform(optionstr) == lower(optionstr)

(* ---------------------------------------------------------------------- *)
(* Input lines the stream may deliver                                      *)
(* ---------------------------------------------------------------------- *)
L_blank == <<>>
L_s == <<"[", "s", "]">>
L_DEFAULT == <<"[">> \o default_section \o <<"]">>
L_Fake == <<"[">> \o TotallyFakeSectionHeader \o <<"]">>
L_a1 == <<"a", "=", "1">>
L_a2 == <<"a", "=", "2">>
L_b2 == <<"b", "=", "2">>
L_A == <<"A">>
L_in2 == <<" ", " ", "2">>
L_in3 == <<" ", " ", "3">>
L_eq5 == <<"=", "5">>
L_comment == <<";", " ", "C">>
L_note == <<"a", "=", "1", " ", " ", "#", " ", "n", "o", "t", "e">>
L_bad == <<"!", "!", "!", "b", "a", "d", "!", "!", "!">>
L_worse == <<"?", "?", "?", "w", "o", "r", "s", "e", "?", "?", "?">>
L_t_indented == <<" ", " ", "[", "t", "]">>

PaletteCore == {L_blank, L_s, L_DEFAULT, L_a1, L_A, L_in2}
PaletteValues == PaletteCore \cup {L_a2, L_b2, L_in3, L_eq5}
PaletteText == PaletteCore \cup {L_comment, L_note, L_bad, L_worse, L_eq5}
PaletteFake == {L_blank, L_s, L_Fake, L_t_indented, L_a1, L_b2, L_A, L_in2}
PaletteDefault == PaletteCore \cup {L_a2}
AllLines == PaletteValues \cup PaletteText \cup PaletteFake

(* ---------------------------------------------------------------------- *)
(* Parser state                                                            *)
(* ---------------------------------------------------------------------- *)
\* cursect is a reference to a dict: none, self._defaults or
\* self._sections[key]
NoSect == [ref |-> "None", key |-> None]
DefaultsRef == [ref |-> "defaults", key |-> None]
SectRef(name) == [ref |-> "sections", key |-> name]

DerefIn(secs, defs, cs) == IF cs.ref = "defaults" THEN defs ELSE Get(secs, cs.key)
Deref(cs) == DerefIn(sections, defaults, cs)
SectionsWith(cs, d) == IF cs.ref = "sections" THEN Put(sections, cs.key, d) ELSE sections
DefaultsWith(cs, d) == IF cs.ref = "defaults" THEN d ELSE defaults

\* truth value of optname: neither None nor the empty string
Truthy(name) == name # None /\ name # <<>>

\* entries of elements_added: a section name, or a (section, option) pair
SectElem(s) == [sect |-> s, opt |-> None]
OptElem(s, o) == [sect |-> s, opt |-> o]

\* _handle_error: create the ParsingError on first use, append (lineno, line)
handle_error(err, n, line) == Append(err, [lineno |-> n, line |-> line])

\* a bare occurrence is stored as None also over a value that is there
StoreOption_clobber(d, name, optval) ==
    IF optval # None
    THEN IF ~Has(d, name) THEN Put(d, name, Lines(<<strip(optval)>>)) ELSE d
    ELSE Put(d, name, NoValue)

\* a later occurrence keeps the first value but takes the entry out and
\* puts it back at the end of the section
StoreOption_requeue(d, name, optval) ==
    IF Has(d, name)
    THEN Append(SelectSeq(d, LAMBDA x : x.k # name), [k |-> name, v |-> Get(d, name)])
    ELSE IF optval # None THEN Put(d, name, Lines(<<strip(optval)>>))
    ELSE Put(d, name, NoValue)

\* the assignment of the unmodified loop: a later occurrence overwrites
StoreOption_overwrite(d, name, optval) ==
    IF optval # None THEN Put(d, name, Lines(<<strip(optval)>>))
    ELSE Put(d, name, NoValue)

\* lines 130-137: store the option only if its name is not in the section yet
StoreOption(d, name, optval) ==
    IF optval # None
    THEN IF ~Has(d, name) THEN Put(d, name, Lines(<<strip(optval)>>)) ELSE d
    ELSE IF ~Has(d, name) THEN Put(d, name, NoValue) ELSE d

\* the default section's name is an ordinary name: it gets a named section
ResolveSection_named(secs, header) ==
    IF Has(secs, header) THEN secs ELSE Put(secs, header, <<>>)

\* a header always starts an empty section, also for a name that exists
ResolveSection_reset(secs, header) ==
    IF header = default_section /\ ~Has(secs, header) THEN secs
    ELSE Put(secs, header, <<>>)

\* lines 90-101: the sections after a header naming `header`: an existing
\* section and the default section are re-opened, any other name adds an
\* empty section
ResolveSection(secs, header) ==
    IF Has(secs, header) THEN secs
    ELSE IF header = default_section THEN secs
    ELSE Put(secs, header, <<>>)

\* the test by truth value: an empty current section counts as none
NoSectionYet_falsy == IF cursect = NoSect THEN TRUE ELSE Deref(cursect) = <<>>

\* line 105: elif cursect is None
NoSectionYet == cursect = NoSect

\* a header that leaves the open option as it is
optname_after_header_kept == optname

\* line 103: after a section header no option is open
optname_after_header == None

\* the continuation test with >= in place of >
IsContinuation_ge(line) ==
    /\ cursect # NoSect
    /\ Truthy(optname)
    /\ cur_indent_level(line) >= indent_level

\* the continuation test of line 81
IsContinuation(line) ==
    /\ cursect # NoSect
    /\ Truthy(optname)
    /\ cur_indent_level(line) > indent_level

\* _join_multiline_values for one dict
JoinDict(d) ==
    [i \in 1..Len(d) |->
        [k |-> d[i].k,
         v |-> IF d[i].v.tag = "list" THEN Str(rstrip(join(d[i].v.lines))) ELSE d[i].v]]

(* ---------------------------------------------------------------------- *)
(* The loop this reader derives from: RawConfigParser._read, unmodified,   *)
(* under the same configuration.  It differs in two places: a missing      *)
(* section header is fatal, and an option line always assigns.             *)
(* ---------------------------------------------------------------------- *)
RefInit ==
    [cursect |-> NoSect, sectname |-> None, optname |-> None, indent_level |-> 0,
     e |-> <<>>, sections |-> <<>>, defaults |-> <<>>, pc |-> "scan", exc |-> "None"]

RefDeref(r) == IF r.cursect.ref = "defaults" THEN r.defaults
               ELSE Get(r.sections, r.cursect.key)

RefWith(r, d) ==
    IF r.cursect.ref = "defaults" THEN [r EXCEPT !.defaults = d]
    ELSE [r EXCEPT !.sections = Put(r.sections, r.cursect.key, d)]

RefAssign(d, name, optval) ==
    IF optval # None THEN Put(d, name, Lines(<<strip(optval)>>))
    ELSE Put(d, name, NoValue)

RefStep(r, n, line) ==
    IF r.pc # "scan" THEN r
    ELSE IF value(line) = <<>>
    THEN IF empty_lines_in_values
         THEN IF /\ comment_start(line) = maxsize
                 /\ r.cursect # NoSect
                 /\ Truthy(r.optname)
                 /\ Get(RefDeref(r), r.optname).tag # "None"
              THEN RefWith(r, Put(RefDeref(r), r.optname,
                       Lines(Append(Get(RefDeref(r), r.optname).lines, <<>>))))
              ELSE r
         ELSE [r EXCEPT !.indent_level = maxsize]
    ELSE IF r.cursect # NoSect /\ Truthy(r.optname)
            /\ cur_indent_level(line) > r.indent_level
    THEN IF Get(RefDeref(r), r.optname).tag = "None"
         THEN [r EXCEPT !.pc = "raised", !.exc = "AttributeError"]
         ELSE RefWith(r, Put(RefDeref(r), r.optname,
                  Lines(Append(Get(RefDeref(r), r.optname).lines, value(line)))))
    ELSE LET r1 == [r EXCEPT !.indent_level = cur_indent_level(line)]
             sm == SECTCRE(value(line))
             om == optcre(value(line))
         IN IF sm.matched
            THEN LET r2 == [r1 EXCEPT !.sectname = sm.header, !.optname = None]
                 IN IF Has(r.sections, sm.header)
                    THEN [r2 EXCEPT !.cursect = SectRef(sm.header)]
                    ELSE IF sm.header = default_section
                    THEN [r2 EXCEPT !.cursect = DefaultsRef]
                    ELSE [r2 EXCEPT !.cursect = SectRef(sm.header),
                                    !.sections = Put(r.sections, sm.header, <<>>)]
            ELSE IF r.cursect = NoSect
            THEN [r1 EXCEPT !.pc = "raised", !.exc = "MissingSectionHeaderError"]
            ELSE IF om.matched
            THEN LET name == optionxform(rstrip(om.option))
                     r2 == [r1 EXCEPT !.optname = name,
                               !.e = IF om.option = <<>>
                                     THEN handle_error(r.e, n, line) ELSE r.e]
                 IN RefWith(r2, RefAssign(RefDeref(r), name, om.value))
            ELSE [r1 EXCEPT !.e = handle_error(r.e, n, line)]

RefEnd(r) ==
    IF r.pc # "scan" THEN r
    ELSE [r EXCEPT !.defaults = JoinDict(r.defaults),
                   !.sections = [i \in 1..Len(r.sections) |->
                                    [k |-> r.sections[i].k,
                                     v |-> JoinDict(r.sections[i].v)]],
                   !.pc = IF r.e # <<>> THEN "raised" ELSE "returned",
                   !.exc = IF r.e # <<>> THEN "ParsingError" ELSE "None"]

(* ---------------------------------------------------------------------- *)
(* Initial state: a freshly constructed parser at the start of _read       *)
(* ---------------------------------------------------------------------- *)
InitParser ==
    /\ fp = <<>>
    /\ lineno = 0
    /\ elements_added = {}
    /\ cursect = NoSect
    /\ sectname = None
    /\ optname = None
    /\ indent_level = 0
    /\ e = <<>>
    /\ sections = <<>>
    /\ defaults = <<>>
    /\ proxies = <<>>
    /\ pc = "scan"
    /\ exc = "None"
    /\ log = <<>>
    /\ ref = RefInit

\* the stripping is not run on its own
NotClassifying ==
    [line |-> <<>>, prefixes |-> <<>>, done |-> FALSE,
     comment_start |-> maxsize, value |-> <<>>]

Init == palette = PaletteValues /\ InitParser /\ classify = NotClassifying
InitText == palette = PaletteText /\ InitParser /\ classify = NotClassifying
InitFake == palette = PaletteFake /\ InitParser /\ classify = NotClassifying

\* _read on a fresh parser or on a parser object that already holds an
\* empty named section bearing the default section's name (default_section
\* is a plain attribute and can differ between two reads)
InitReused ==
    /\ palette = PaletteDefault
    /\ classify = NotClassifying
    /\ \E had \in {<<>>, <<default_section>>} :
           /\ sections = [i \in 1..Len(had) |-> [k |-> had[i], v |-> <<>>]]
           /\ proxies = [i \in 1..Len(had) |-> [k |-> had[i], v |-> had[i]]]
           /\ ref = [RefInit EXCEPT
                        !.sections = [i \in 1..Len(had) |-> [k |-> had[i], v |-> <<>>]]]
    /\ fp = <<>>
    /\ lineno = 0
    /\ elements_added = {}
    /\ cursect = NoSect
    /\ sectname = None
    /\ optname = None
    /\ indent_level = 0
    /\ e = <<>>
    /\ defaults = <<>>
    /\ pc = "scan"
    /\ exc = "None"
    /\ log = <<>>

\* the characters of the lines and the inline prefix configurations the
\* stripping is run on
Alphabet == {"a", " ", "#", ";"}
PrefixConfigs ==
    {<< <<"#">> >>, << <<";">> >>, << <<"#">>, <<";">> >>, << <<";">>, <<"#">> >>}

InitClassify ==
    /\ palette = {}
    /\ InitParser
    /\ classify \in {[NotClassifying EXCEPT !.prefixes = p] : p \in PrefixConfigs}

(* ---------------------------------------------------------------------- *)
(* One iteration of the for-loop, by the branch the line takes             *)
(* ---------------------------------------------------------------------- *)
\* enumerate(fp, start=1) delivers the next line; the unmodified loop is
\* run on the same stream
Deliver(line) ==
    /\ pc = "scan"
    /\ lineno < MaxLines
    /\ line \in palette
    /\ fp' = Append(fp, line)
    /\ lineno' = lineno + 1
    /\ ref' = RefStep(ref, lineno + 1, line)
    /\ UNCHANGED <<palette, classify>>

LogEntry(kind, cs, name, optval, fresh) ==
    [kind |-> kind, sect |-> cs, name |-> name, val |-> optval, fresh |-> fresh]

\* lines 69-77: the content is empty
BlankLine(line) ==
    /\ Deliver(line)
    /\ value(line) = <<>>
    /\ IF empty_lines_in_values
       THEN /\ IF /\ comment_start(line) = maxsize
                  /\ cursect # NoSect
                  /\ Truthy(optname)
                  /\ Get(Deref(cursect), optname).tag # "None"
               THEN LET d == Put(Deref(cursect), optname,
                                Lines(Append(Get(Deref(cursect), optname).lines, <<>>)))
                    IN /\ sections' = SectionsWith(cursect, d)
                       /\ defaults' = DefaultsWith(cursect, d)
                       /\ log' = Append(log, LogEntry("blank", cursect, optname, None, TRUE))
               ELSE /\ UNCHANGED <<sections, defaults>>
                    /\ log' = Append(log, LogEntry("blank", cursect, optname, None, FALSE))
            /\ UNCHANGED indent_level
       ELSE /\ indent_level' = maxsize
            /\ log' = Append(log, LogEntry("blank", cursect, optname, None, FALSE))
            /\ UNCHANGED <<sections, defaults>>
    /\ UNCHANGED <<elements_added, cursect, sectname, optname, e, proxies, pc, exc>>

\* lines 81-82: an open option and a deeper indent; appending to a
\* valueless option (None) raises AttributeError out of _read
ContinuationLine(line) ==
    /\ Deliver(line)
    /\ value(line) # <<>>
    /\ IsContinuation(line)
    /\ IF Get(Deref(cursect), optname).tag = "None"
       THEN /\ pc' = "raised"
            /\ exc' = "AttributeError"
            /\ log' = Append(log, LogEntry("continuation", cursect, optname, None, FALSE))
            /\ UNCHANGED <<sections, defaults>>
       ELSE LET d == Put(Deref(cursect), optname,
                         Lines(Append(Get(Deref(cursect), optname).lines, value(line))))
            IN /\ sections' = SectionsWith(cursect, d)
               /\ defaults' = DefaultsWith(cursect, d)
               /\ log' = Append(log, LogEntry("continuation", cursect, optname, None, TRUE))
               /\ UNCHANGED <<pc, exc>>
    /\ UNCHANGED <<elements_added, cursect, sectname, optname, indent_level, e, proxies>>

\* lines 87-103: a section header
SectionHeader(line) ==
    /\ Deliver(line)
    /\ value(line) # <<>>
    /\ ~IsContinuation(line)
    /\ SECTCRE(value(line)).matched
    /\ LET header == SECTCRE(value(line)).header
       IN /\ indent_level' = cur_indent_level(line)
          /\ sectname' = header
          /\ IF Has(sections, header)
             THEN IF strict /\ SectElem(header) \in elements_added
                  THEN /\ pc' = "raised"
                       /\ exc' = "DuplicateSectionError"
                       /\ log' = Append(log, LogEntry("header", cursect, None, None, FALSE))
                       /\ UNCHANGED <<cursect, elements_added, sections, proxies, optname>>
                  ELSE /\ cursect' = SectRef(header)
                       /\ elements_added' = elements_added \cup {SectElem(header)}
                       /\ optname' = optname_after_header
                       /\ log' = Append(log, LogEntry("header", SectRef(header), None, None, FALSE))
                       /\ sections' = ResolveSection(sections, header)
                       /\ UNCHANGED <<proxies, pc, exc>>
             ELSE IF header = default_section
             THEN /\ cursect' = DefaultsRef
                  /\ optname' = optname_after_header
                  /\ log' = Append(log, LogEntry("header", DefaultsRef, None, None, FALSE))
                  /\ sections' = ResolveSection(sections, header)
                  /\ UNCHANGED <<elements_added, proxies, pc, exc>>
             ELSE /\ cursect' = SectRef(header)
                  /\ sections' = ResolveSection(sections, header)
                  /\ proxies' = Put(proxies, header, header)
                  /\ elements_added' = elements_added \cup {SectElem(header)}
                  /\ optname' = optname_after_header
                  /\ log' = Append(log, LogEntry("header", SectRef(header), None, None, TRUE))
                  /\ UNCHANGED <<pc, exc>>
    /\ UNCHANGED <<defaults, e>>

\* lines 105-114: content before any header; the placeholder section is
\* created and the iteration ends
MissingSectionHeader(line) ==
    /\ Deliver(line)
    /\ value(line) # <<>>
    /\ ~IsContinuation(line)
    /\ ~SECTCRE(value(line)).matched
    /\ NoSectionYet
    /\ indent_level' = cur_indent_level(line)
    /\ cursect' = SectRef(TotallyFakeSectionHeader)
    /\ sectname' = TotallyFakeSectionHeader
    /\ sections' = Put(sections, TotallyFakeSectionHeader, <<>>)
    /\ proxies' = Put(proxies, TotallyFakeSectionHeader, TotallyFakeSectionHeader)
    /\ elements_added' = elements_added \cup {SectElem(TotallyFakeSectionHeader)}
    /\ optname' = None
    /\ log' = Append(log, LogEntry("placeholder", SectRef(TotallyFakeSectionHeader),
                                   None, None, TRUE))
    /\ UNCHANGED <<defaults, e, pc, exc>>

\* lines 117-143: an option line of the current section
OptionLine(line) ==
    /\ Deliver(line)
    /\ value(line) # <<>>
    /\ ~IsContinuation(line)
    /\ ~SECTCRE(value(line)).matched
    /\ ~NoSectionYet
    /\ indent_level' = cur_indent_level(line)
    /\ LET mo == optcre(value(line))
       IN IF mo.matched
          THEN LET name == optionxform(rstrip(mo.option))
                   e1 == IF mo.option = <<>>
                         THEN handle_error(e, lineno + 1, line) ELSE e
                   d == StoreOption(Deref(cursect), name, mo.value)
               IN /\ e' = e1
                  /\ optname' = name
                  /\ IF strict /\ OptElem(sectname, name) \in elements_added
                     THEN /\ pc' = "raised"
                          /\ exc' = "DuplicateOptionError"
                          /\ log' = Append(log, LogEntry("option", cursect, name, mo.value, FALSE))
                          /\ UNCHANGED <<elements_added, sections, defaults>>
                     ELSE /\ elements_added' = elements_added \cup {OptElem(sectname, name)}
                          /\ sections' = SectionsWith(cursect, d)
                          /\ defaults' = DefaultsWith(cursect, d)
                          /\ log' = Append(log, LogEntry("option", cursect, name,
                                       IF mo.value = None THEN None ELSE strip(mo.value),
                                       ~Has(Deref(cursect), name)))
                          /\ UNCHANGED <<pc, exc>>
          ELSE /\ e' = handle_error(e, lineno + 1, line)
               /\ log' = Append(log, LogEntry("error", cursect, None, None, FALSE))
               /\ UNCHANGED <<elements_added, sections, defaults, optname, pc, exc>>
    /\ UNCHANGED <<cursect, sectname, proxies>>

\* lines 145-148: the stream is exhausted; join the values, then raise the
\* collected ParsingError if there is one
EndOfFile ==
    /\ pc = "scan"
    /\ defaults' = JoinDict(defaults)
    /\ sections' = [i \in 1..Len(sections) |->
                       [k |-> sections[i].k, v |-> JoinDict(sections[i].v)]]
    /\ IF e # <<>>
       THEN pc' = "raised" /\ exc' = "ParsingError"
       ELSE pc' = "returned" /\ UNCHANGED exc
    /\ ref' = RefEnd(ref)
    /\ UNCHANGED <<palette, fp, lineno, elements_added, cursect, sectname, optname,
                   indent_level, e, proxies, log, classify>>

Next ==
    \/ \E line \in palette : BlankLine(line)
    \/ \E line \in palette : ContinuationLine(line)
    \/ \E line \in palette : SectionHeader(line)
    \/ \E line \in palette : MissingSectionHeader(line)
    \/ \E line \in palette : OptionLine(line)
    \/ EndOfFile

Spec == Init /\ [][Next]_vars
SpecText == InitText /\ [][Next]_vars
SpecFake == InitFake /\ [][Next]_vars
SpecReused == InitReused /\ [][Next]_vars

(* ---------------------------------------------------------------------- *)
(* Lines 48-68 on their own: the line grows by one character at a time,    *)
(* then the stripping is applied to it with the configured inline prefixes *)
(* ---------------------------------------------------------------------- *)
ExtendLine(c) ==
    /\ ~classify.done
    /\ classify.prefixes # <<>>
    /\ Len(classify.line) < MaxLineLen
    /\ classify' = [classify EXCEPT !.line = Append(@, c)]
    /\ UNCHANGED parser_vars

ClassifyLine ==
    /\ ~classify.done
    /\ classify.prefixes # <<>>
    /\ classify' = [classify EXCEPT
           !.done = TRUE,
           !.comment_start =
               comment_start_of(classify.line, classify.prefixes, comment_prefixes),
           !.value = content_of(classify.line, classify.prefixes, comment_prefixes)]
    /\ UNCHANGED parser_vars

NextClassify ==
    \/ \E c \in Alphabet : ExtendLine(c)
    \/ ClassifyLine

SpecClassify == InitClassify /\ [][NextClassify]_vars

(* ---------------------------------------------------------------------- *)
(* Reading the input independently of the parser: what a line says         *)
(* ---------------------------------------------------------------------- *)
\* the name written on an option line: the text before the first "=",
\* trimmed and case-folded
NameTextOf ==
    [line \in AllLines |->
        LET v == strip(line)
            p == find(v, <<"=">>, 0)
        IN lower(strip(IF p = -1 THEN v ELSE SubSeq(v, 1, p)))]

NameText(line) == NameTextOf[line]

\* the value written on an option line: the trimmed text after the first
\* "=", None for a bare name
ValueTextOf ==
    [line \in AllLines |->
        LET v == strip(line)
            p == find(v, <<"=">>, 0)
        IN IF p = -1 THEN None ELSE strip(SubSeq(v, p + 2, Len(v)))]

ValueText(line) == ValueTextOf[line]

BlankLines == {line \in AllLines : strip(line) = <<>>}
IsBlankText(line) == line \in BlankLines

HeaderLines ==
    {line \in AllLines :
        LET v == strip(line)
        IN Len(v) >= 3 /\ v[1] = "[" /\ \E j \in 3..Len(v) : v[j] = "]"}

IsHeaderText(line) == line \in HeaderLines

\* the name between the brackets of a header line with one closing bracket
HeaderTextOf ==
    [line \in HeaderLines |->
        LET v == strip(line)
        IN SubSeq(v, 2, (CHOOSE j \in 3..Len(v) : v[j] = "]") - 1)]

HeaderText(line) == HeaderTextOf[line]

\* the number of characters before the first one that is not a space
IndentTextOf == [line \in AllLines |-> LeadingSpace(line)]
IndentText(line) == IndentTextOf[line]

\* the text of a joined value up to its first line break
FirstLineOf(str) ==
    IF \E i \in 1..Len(str) : str[i] = "\n"
    THEN SubSeq(str, 1, (CHOOSE i \in 1..Len(str) :
                             str[i] = "\n" /\ \A j \in 1..(i - 1) : str[j] # "\n") - 1)
    ELSE str

\* index of the first line with content, 0 if there is none
FirstContent(f) ==
    IF \A i \in 1..Len(f) : IsBlankText(f[i]) THEN 0
    ELSE CHOOSE i \in 1..Len(f) :
             ~IsBlankText(f[i]) /\ \A j \in 1..(i - 1) : IsBlankText(f[j])

\* line j was processed as an option line
IsOpt(lg, j) == lg[j].kind = "option"

\* line j repeats an option name already given in the same section
Dup(lg, f, j) ==
    /\ IsOpt(lg, j)
    /\ \E i \in 1..(j - 1) :
           IsOpt(lg, i) /\ lg[i].sect = lg[j].sect /\ NameText(f[i]) = NameText(f[j])

\* the first occurrence of the name of option line j in its section
FirstOcc(lg, f, j) ==
    CHOOSE i \in 1..j :
        /\ IsOpt(lg, i) /\ lg[i].sect = lg[j].sect /\ NameText(f[i]) = NameText(f[j])
        /\ \A k \in 1..(i - 1) :
               ~(IsOpt(lg, k) /\ lg[k].sect = lg[j].sect /\ NameText(f[k]) = NameText(f[j]))

\* the stored entry begins with the value text v (None: it is valueless)
BeginsWith(entry, v) ==
    IF v = None THEN entry.tag = "None"
    ELSE \/ entry.tag = "list" /\ entry.lines # <<>> /\ entry.lines[1] = v
         \/ entry.tag = "str" /\ FirstLineOf(entry.str) = v

\* the values have been joined and _read has ended by return or by the
\* aggregate ParsingError
Joined == pc = "returned" \/ (pc = "raised" /\ exc = "ParsingError")

SectionOf(name) == Get(sections, name)

(* ---------------------------------------------------------------------- *)
(* Claims                                                                  *)
(* ---------------------------------------------------------------------- *)
C1_StoredFirst ==
    \A j \in 1..Len(log) :
        Dup(log, fp, j) =>
            /\ Has(Deref(log[j].sect), NameText(fp[j]))
            /\ BeginsWith(Get(Deref(log[j].sect), NameText(fp[j])),
                          ValueText(fp[FirstOcc(log, fp, j)]))

C1_DupStep ==
    (Len(log') = Len(log) + 1 /\ Dup(log', fp', Len(log')))
        => /\ sections' = sections
           /\ defaults' = defaults
           /\ pc' = "scan"
           /\ e' = IF NameText(fp'[Len(fp')]) = <<>>
                   THEN Append(e, [lineno |-> Len(fp'), line |-> fp'[Len(fp')]])
                   ELSE e

C2_HeaderlessRecovery ==
    LET j == FirstContent(fp)
        Target(k) ==
            LET hs == {h \in (j + 1)..(k - 1) : log[h].kind = "header"}
            IN IF hs = {} THEN SectRef(TotallyFakeSectionHeader)
               ELSE LET h == CHOOSE x \in hs : \A y \in hs : y <= x
                    IN IF HeaderText(fp[h]) = default_section THEN DefaultsRef
                       ELSE SectRef(HeaderText(fp[h]))
    IN (j # 0 /\ ~IsHeaderText(fp[j])) =>
           /\ Has(sections, TotallyFakeSectionHeader)
           /\ Has(SectionOf(TotallyFakeSectionHeader), NameText(fp[j]))
           /\ BeginsWith(Get(SectionOf(TotallyFakeSectionHeader), NameText(fp[j])),
                         ValueText(fp[j]))
           /\ \A k \in (j + 1)..Len(log) :
                  IsOpt(log, k) => Has(Deref(Target(k)), NameText(fp[k]))

\* C3: _read fails only with the aggregate ParsingError, raised after the
\* last line has been processed and every value has been joined.
C3_OnlyAggregateAtEnd ==
    pc = "raised" =>
        /\ exc = "ParsingError"
        /\ \A i \in 1..Len(defaults) : defaults[i].v.tag # "list"
        /\ \A s \in 1..Len(sections) :
               \A i \in 1..Len(sections[s].v) : sections[s].v[i].v.tag # "list"

\* the lines of a joined value
SplitLines(str) ==
    {SubSeq(str, ab[1], ab[2]) :
        ab \in {x \in (1..(Len(str) + 1)) \X (0..Len(str)) :
                   /\ x[2] >= x[1] - 1
                   /\ (x[1] = 1 \/ str[x[1] - 1] = "\n")
                   /\ (x[2] = Len(str) \/ str[x[2] + 1] = "\n")
                   /\ \A i \in x[1]..x[2] : str[i] # "\n"}}

\* every option dict of the Document: the default section and the sections
AllDicts == {defaults} \cup {sections[i].v : i \in 1..Len(sections)}

\* the text is in the Document as an option name or as a line of a value
Present(text, name) ==
    \E d \in AllDicts : \E i \in 1..Len(d) :
        \/ d[i].k = name
        \/ d[i].v.tag = "list" /\ \E n \in 1..Len(d[i].v.lines) : d[i].v.lines[n] = text
        \/ d[i].v.tag = "str" /\ text \in SplitLines(d[i].v.str)

IsCommentText(line) == strip(line) # <<>> /\ strip(line)[1] \in {";", "#"}

\* the (lineno, line) entries of the lines in js, in file order
RECURSIVE ErrorsOf(_, _, _)
ErrorsOf(f, js, from) ==
    IF from > Len(f) THEN <<>>
    ELSE (IF from \in js THEN <<[lineno |-> from, line |-> f[from]]>> ELSE <<>>)
         \o ErrorsOf(f, js, from + 1)

\* C4 as stated: for [s], !!!bad!!!, a=1, ???worse???, s.a is 1 and the error
\* list has exactly two entries, for the malformed lines 2 and 4, in order.
C4_MalformedAggregation ==
    (Joined /\ fp = <<L_s, L_bad, L_a1, L_worse>>) =>
        /\ Get(SectionOf(<<"s">>), <<"a">>) = Str(<<"1">>)
        /\ e = <<[lineno |-> 2, line |-> L_bad], [lineno |-> 4, line |-> L_worse]>>

\* C4 amended: the error list holds exactly one (line number, raw text)
\* entry for each line processed as an option line whose option name is
\* empty (its content starts with "="), in file order, and no other entry:
\* every other line with content is a header, a continuation or a (possibly
\* valueless) option.  The option of every option line is stored.  For
\* [s], !!!bad!!!, a=1, ???worse???: s.a is 1, the other two lines are
\* valueless options and the error list is empty.
C4_EmptyNameAggregation ==
    /\ e = ErrorsOf(fp, {j \in 1..Len(log) :
                             IsOpt(log, j) /\ startswith(strip(fp[j]), <<"=">>)}, 1)
    /\ \A j \in 1..Len(log) :
           IsOpt(log, j) => Has(Deref(log[j].sect), NameText(fp[j]))
    /\ (Joined /\ fp = <<L_s, L_bad, L_a1, L_worse>>) =>
           /\ e = <<>>
           /\ SectionOf(<<"s">>) = <<[k |-> L_bad, v |-> NoValue],
                                     [k |-> <<"a">>, v |-> Str(<<"1">>)],
                                     [k |-> L_worse, v |-> NoValue]>>

\* C4 witness: [s], =5, a=1, !!!bad!!! read to the end: one error entry, for
\* line 2, and s.a is stored
C4_Witness ==
    /\ fp = <<L_s, L_eq5, L_a1, L_bad>>
    /\ pc = "raised" /\ exc = "ParsingError"
    /\ e = <<[lineno |-> 2, line |-> L_eq5]>>
    /\ Get(SectionOf(<<"s">>), <<"a">>) = Str(<<"1">>)

\* C5: at the end of the parse every line whose stripped text starts with
\* ";" or "#" is in the Document, as an option name (after the option-name
\* transform) or as one line of an option's value.
C5_CommentsKept ==
    Joined => \A j \in 1..Len(fp) :
                  IsCommentText(fp[j]) => Present(strip(fp[j]), NameText(fp[j]))

\* C6 as stated: the value stored for a=1  # note is 1
C6_InlineCommentStripped ==
    \A j \in 1..Len(log) :
        (IsOpt(log, j) /\ fp[j] = L_note /\ ~Dup(log, fp, j)) =>
            BeginsWith(Get(Deref(log[j].sect), <<"a">>), <<"1">>)

\* C6 amended: with the class's configuration (no inline comment prefixes)
\* nothing is cut from the line: the value stored for the first occurrence
\* of an option is the whole trimmed text after the delimiter, so for
\* a=1  # note under [s] the value of s.a is "1  # note".
C6_InlineCommentKept ==
    /\ \A j \in 1..Len(log) :
           (IsOpt(log, j) /\ ~Dup(log, fp, j)) =>
               /\ Has(Deref(log[j].sect), NameText(fp[j]))
               /\ BeginsWith(Get(Deref(log[j].sect), NameText(fp[j])), ValueText(fp[j]))
    /\ (Joined /\ fp = <<L_s, L_note>>) =>
           Get(SectionOf(<<"s">>), <<"a">>) =
               Str(<<"1", " ", " ", "#", " ", "n", "o", "t", "e">>)

\* C6 witness: [s], a=1  # note read to the end
C6_Witness ==
    /\ fp = <<L_s, L_note>>
    /\ pc = "returned"
    /\ Get(SectionOf(<<"s">>), <<"a">>).str = SubSeq(L_note, 3, Len(L_note))

\* option line i is the first occurrence of a non-empty name and carries a
\* value: the line that creates the stored line sequence
OpensValue(lg, f, i) ==
    /\ IsOpt(lg, i)
    /\ ~Dup(lg, f, i)
    /\ NameText(f[i]) # <<>>
    /\ ValueText(f[i]) # None

\* lines i+1..j all have content and are indented deeper than line i
DeeperRun(f, i, j) ==
    \A m \in (i + 1)..j :
        ~IsBlankText(f[m]) /\ IndentText(f[m]) > IndentText(f[i])

\* the lines after i that appended to the option of line i
Appenders(lg, f, i) ==
    {j \in (i + 1)..Len(lg) :
        /\ lg[j].kind \in {"continuation", "blank"}
        /\ lg[j].fresh
        /\ lg[j].sect = lg[i].sect
        /\ lg[j].name = NameText(f[i])}

EntryOf(lg, f, i) == Get(Deref(lg[i].sect), NameText(f[i]))

C7_Appended ==
    \A i \in 1..Len(log) : \A j \in i..Len(log) :
        (OpensValue(log, fp, i) /\ DeeperRun(fp, i, j)) =>
            LET expected == <<ValueText(fp[i])>> \o [m \in 1..(j - i) |-> strip(fp[i + m])]
                entry == EntryOf(log, fp, i)
            IN /\ entry.tag = "list" =>
                      /\ Len(entry.lines) >= j - i + 1
                      /\ SubSeq(entry.lines, 1, j - i + 1) = expected
               /\ (Joined /\ Appenders(log, fp, i) = (i + 1)..j) =>
                      entry = Str(join(expected))

\* C7: for the option line that opens a value (first occurrence of its name
\* in the section, with a value), followed by k lines with content whose raw
\* indentation is strictly greater than the option line's, the stored line
\* sequence is the value followed by the k trimmed contents in input order,
\* and when nothing else is appended the final value is these joined by
\* line breaks ([s], a=1, "  2", "  3" gives "1\n2\n3").
C7_Continuation ==
    /\ C7_Appended
    /\ (Joined /\ fp = <<L_s, L_a1, L_in2, L_in3>>) =>
           Get(SectionOf(<<"s">>), <<"a">>) = Str(<<"1", "\n", "2", "\n", "3">>)

\* C7 witness: [s], a=1, "  2", "  3" read to the end
C7_Witness ==
    /\ fp = <<L_s, L_a1, L_in2, L_in3>>
    /\ pc = "returned"
    /\ Get(SectionOf(<<"s">>), <<"a">>).str = join(<<<<"1">>, <<"2">>, <<"3">>>>)

C8_BlankStep ==
    (/\ pc = "scan"
     /\ Len(fp') = Len(fp) + 1
     /\ IsBlankText(fp'[Len(fp')])
     /\ cursect # NoSect
     /\ Truthy(optname)
     /\ Get(Deref(cursect), optname).tag = "list")
        => /\ Get(DerefIn(sections', defaults', cursect), optname) =
                  Lines(Append(Get(Deref(cursect), optname).lines, <<>>))
           /\ optname' = optname
           /\ cursect' = cursect
           /\ indent_level' = indent_level
           /\ pc' = "scan"

C8_Interior ==
    \A i \in 1..Len(log) :
        (/\ OpensValue(log, fp, i)
         /\ i + 2 <= Len(log)
         /\ IsBlankText(fp[i + 1])
         /\ DeeperRun(fp, i + 1, i + 2)
         /\ IndentText(fp[i + 2]) > IndentText(fp[i]))
            => LET entry == EntryOf(log, fp, i)
                   expected == <<ValueText(fp[i]), <<>>, strip(fp[i + 2])>>
               IN /\ entry.tag = "list" => SubSeq(entry.lines, 1, 3) = expected
                  /\ (Joined /\ Len(fp) = i + 2) => entry = Str(join(expected))

\* C8: with blank lines in values enabled, a blank line that follows an open
\* option holding a line sequence is appended to it as an empty entry and
\* leaves the option open and the baseline indent as they are; followed by a
\* deeper line it is an interior empty line of the joined value
\* ([s], a=1, blank, "  2" gives "1\n\n2").
C8_BlankInValue ==
    /\ [][C8_BlankStep]_vars
    /\ [](C8_Interior)
    /\ []((Joined /\ fp = <<L_s, L_a1, L_blank, L_in2>>) =>
              Get(SectionOf(<<"s">>), <<"a">>) = Str(<<"1", "\n", "\n", "2">>))

\* C8 witness: [s], a=1, blank, "  2" read to the end
C8_Witness ==
    /\ fp = <<L_s, L_a1, L_blank, L_in2>>
    /\ pc = "returned"
    /\ Get(SectionOf(<<"s">>), <<"a">>).str = <<"1", "\n", "\n", "2">>

\* no line of the input contains a comment marker
NoMarkers(f) == \A i \in 1..Len(f) : \A c \in 1..Len(f[i]) : f[i][c] \notin {";", "#"}

\* no option line repeats a name of its section
NoDupKeys(lg, f) == \A j \in 1..Len(lg) : ~Dup(lg, f, j)

\* the first line with content, if any, is a section header
HeaderFirst(f) == FirstContent(f) = 0 \/ IsHeaderText(f[FirstContent(f)])

\* both readers ended the same way with the same Document
SameOutcome ==
    /\ ref.pc = pc
    /\ ref.exc = exc
    /\ ref.sections = sections
    /\ ref.defaults = defaults
    /\ exc = "ParsingError" => ref.e = e

\* C9 as stated: without comment markers and duplicate keys this reader and
\* the unmodified loop end in the same outcome.
C9_EquivalentToStandard ==
    (pc # "scan" /\ NoMarkers(fp) /\ NoDupKeys(log, fp)) => SameOutcome

\* C9 amended: for every input with no comment markers and no duplicate
\* keys whose first line with content is a section header (or that has no
\* content), read by a freshly constructed parser, this reader and the
\* unmodified loop end in the same outcome: the same sections, the same
\* options in the same order, the same values, the same result.
C9_EquivalentWhenHeaderFirst ==
    (pc # "scan" /\ NoMarkers(fp) /\ NoDupKeys(log, fp) /\ HeaderFirst(fp)) => SameOutcome

\* C9 witness: [s], a=1, "  2", b=2 read to the end by both readers
C9_Witness ==
    /\ fp = <<L_s, L_a1, L_in2, L_b2>>
    /\ pc = "returned"
    /\ ref.pc = "returned"
    /\ ref.sections = sections
    /\ Keys(SectionOf(<<"s">>)) = <<<<"a">>, <<"b">>>>

C10_ReopenStep ==
    (/\ pc = "scan"
     /\ Len(fp') = Len(fp) + 1
     /\ ~IsBlankText(fp'[Len(fp')])
     /\ ~IsContinuation(fp'[Len(fp')])
     /\ IsHeaderText(fp'[Len(fp')])
     /\ Has(sections, HeaderText(fp'[Len(fp')])))
        => /\ e' = e
           /\ pc' = "scan"
           /\ exc' = exc
           /\ sections' = sections
           /\ defaults' = defaults
           /\ cursect' = SectRef(HeaderText(fp'[Len(fp')]))
           /\ optname' = None

C10_OptionStep ==
    (/\ Len(log') = Len(log) + 1
     /\ IsOpt(log', Len(log'))
     /\ cursect.ref = "sections")
        => LET line == fp'[Len(fp')]
               d == SectionOf(cursect.key)
               entry == IF ValueText(line) = None THEN NoValue
                        ELSE Lines(<<ValueText(line)>>)
           IN /\ cursect' = cursect
              /\ defaults' = defaults
              /\ sections' = Put(sections, cursect.key,
                                 IF Has(d, NameText(line)) THEN d
                                 ELSE Append(d, [k |-> NameText(line), v |-> entry]))

C10_UniqueNames ==
    \A a, b \in 1..Len(sections) : sections[a].k = sections[b].k => a = b

\* C10: a header naming a section that already exists records and raises no
\* error, creates no second section and leaves every stored option and value
\* as it is; it makes that section current, and the option lines that follow
\* are stored in it, a new name appended, an existing name left alone.
C10_DuplicateHeadersMerge ==
    /\ [][C10_ReopenStep /\ C10_OptionStep]_vars
    /\ [](C10_UniqueNames)

\* C10 witness: [s], a=1, [s], b=2 read to the end: one section s with a, b
C10_Witness ==
    /\ fp = <<L_s, L_a1, L_s, L_b2>>
    /\ pc = "returned"
    /\ sections = <<[k |-> <<"s">>,
                     v |-> <<[k |-> <<"a">>, v |-> Str(<<"1">>)],
                             [k |-> <<"b">>, v |-> Str(<<"2">>)]>>]>>

\* the lines after line j up to the next option line or section header
Following(lg, j) ==
    {m \in (j + 1)..Len(lg) :
        \A n \in (j + 1)..m : lg[n].kind \in {"blank", "continuation"}}

\* C11: after an option line that repeats a name already stored in its
\* section, no line up to the next option line or section header is appended
\* to the stored value: the line sequence of the first occurrence stays as it
\* was ([s], a=1, a=2, "  3" leaves s.a with the single line 1).
C11_DuplicateIgnored ==
    /\ \A j \in 1..Len(log) :
           Dup(log, fp, j) => \A m \in Following(log, j) : ~log[m].fresh
    /\ (pc = "scan" /\ fp = <<L_s, L_a1, L_a2, L_in3>>) =>
           Get(SectionOf(<<"s">>), <<"a">>) = Lines(<<<<"1">>>>)

\* a step that adds an entry to the error list leaves the sections, their
\* options and values, and the current section as they are
C12_ErrorStep ==
    (e' # e) =>
        /\ sections' = sections
        /\ defaults' = defaults
        /\ cursect' = cursect

\* C12: a line recorded as a syntax error changes nothing but the error
\* list; [s], =5 adds an error entry and stores no option in s.
C12_ErrorLeavesDocument ==
    /\ [][C12_ErrorStep]_vars
    /\ []((pc = "scan" /\ fp = <<L_s, L_eq5>>) =>
              (e # <<>> /\ SectionOf(<<"s">>) = <<>>))

\* option line j lies before the first section header of the input
BeforeFirstHeader(lg, j) == \A h \in 1..j : lg[h].kind # "header"

\* C13: an option of a line before the first header and an option written
\* under a [name] header are never stored in the same Section, whatever the
\* name, TotallyFakeSectionHeader included.
C13_PlaceholderDistinct ==
    \A i, j \in 1..Len(log) :
        (/\ IsOpt(log, i) /\ BeforeFirstHeader(log, i)
         /\ IsOpt(log, j) /\ ~BeforeFirstHeader(log, j))
            => log[i].sect # log[j].sect

\* a step that processes its line as a section header leaves no option open
\* and takes the header's indentation as the baseline
C14_HeaderStep ==
    (Len(log') = Len(log) + 1 /\ log'[Len(log')].kind = "header")
        => /\ optname' = None
           /\ indent_level' = IndentText(fp'[Len(fp')])
           /\ pc' = "scan"

\* the first line with content after a header, whatever its indentation, is
\* a header or an option line of the section the header made current; the
\* blank lines in between append nothing
C14_NextLine ==
    \A h \in 1..Len(log) : \A m \in (h + 1)..Len(log) :
        (/\ log[h].kind = "header"
         /\ \A n \in (h + 1)..(m - 1) : IsBlankText(fp[n])
         /\ ~IsBlankText(fp[m]))
            => /\ log[m].kind = IF IsHeaderText(fp[m]) THEN "header" ELSE "option"
               /\ log[m].kind = "option" => log[m].sect = log[h].sect
               /\ \A n \in (h + 1)..(m - 1) : log[n].kind = "blank" /\ ~log[n].fresh

\* C14: a section header closes the open option: after it the current option
\* is none and the baseline indent is the header's, so the next line with
\* content is never appended to a value, however deep its indentation; it is
\* processed as a header or as an option line of the newly current section
\* ([s], a=1, [s], "  2" stores the valueless option 2 and leaves a as 1).
C14_HeaderClosesOption ==
    /\ [][C14_HeaderStep]_vars
    /\ [](C14_NextLine)
    /\ []((Joined /\ fp = <<L_s, L_a1, L_s, L_in2>>) =>
              SectionOf(<<"s">>) = <<[k |-> <<"a">>, v |-> Str(<<"1">>)],
                                     [k |-> <<"2">>, v |-> NoValue]>>)

\* C14 witness: [s], a=1, [s], "  2" read to the end: the indented line is
\* the option 2 of s
C14_Witness ==
    /\ fp = <<L_s, L_a1, L_s, L_in2>>
    /\ pc = "returned"
    /\ Keys(SectionOf(<<"s">>)) = <<<<"a">>, <<"2">>>>

\* the 0-based positions of the line at which a configured prefix occurs at
\* column 0 or right after a whitespace character
Qualifying(line, prefixes) ==
    {i \in 0..(Len(line) - 1) :
        /\ \E n \in 1..Len(prefixes) : OccursAt(line, prefixes[n], i)
        /\ (i = 0 \/ isspace(line[i]))}

\* the trimmed text before the leftmost qualifying position, the whole
\* trimmed line if there is none
LeftmostContent(line, prefixes) ==
    LET q == Qualifying(line, prefixes)
    IN IF q = {} THEN strip(line)
       ELSE strip(SubSeq(line, 1, CHOOSE i \in q : \A j \in q : i <= j))

C16_HeaderStep ==
    (/\ Len(log') = Len(log) + 1
     /\ log'[Len(log')].kind = "header"
     /\ HeaderText(fp'[Len(fp')]) = default_section)
        => /\ cursect' = IF Has(sections, default_section)
                         THEN SectRef(default_section) ELSE DefaultsRef
           /\ sections' = sections
           /\ defaults' = defaults
           /\ e' = e
           /\ pc' = "scan"

\* an option line under the default section is stored there, first wins
C16_OptionStep ==
    (/\ Len(log') = Len(log) + 1
     /\ IsOpt(log', Len(log'))
     /\ cursect = DefaultsRef)
        => LET line == fp'[Len(fp')]
               entry == IF ValueText(line) = None THEN NoValue
                        ELSE Lines(<<ValueText(line)>>)
           IN /\ cursect' = cursect
              /\ sections' = sections
              /\ defaults' = IF Has(defaults, NameText(line)) THEN defaults
                             ELSE Append(defaults, [k |-> NameText(line), v |-> entry])

\* no step adds a named section bearing the default section's name
C16_NoNamedDefault ==
    Has(sections', default_section) => Has(sections, default_section)

\* C16: a header whose name is the default section's name makes the default
\* section current; the option lines after it are stored in the default
\* section, first occurrence wins, and no named section of that name is
\* added; if a named section of that name already exists, the header
\* re-opens that section instead.
C16_DefaultHeader ==
    [][C16_HeaderStep /\ C16_OptionStep /\ C16_NoNamedDefault]_vars

\* C16 witness: [DEFAULT], a=1, a=2 read to the end by a fresh parser: the
\* default section holds a = 1 and there is no named section
C16_Witness ==
    /\ fp = <<L_DEFAULT, L_a1, L_a2>>
    /\ pc = "returned"
    /\ defaults = <<[k |-> <<"a">>, v |-> Str(<<"1">>)]>>
    /\ sections = <<>>

\* the option names of section cs in the order of their first option line,
\* from line j on
RECURSIVE FirstNames(_, _, _, _)
FirstNames(lg, f, cs, j) ==
    IF j > Len(lg) THEN <<>>
    ELSE (IF IsOpt(lg, j) /\ lg[j].sect = cs /\ ~Dup(lg, f, j)
          THEN <<NameText(f[j])>> ELSE <<>>)
         \o FirstNames(lg, f, cs, j + 1)

\* s is t or a beginning of t
IsPrefix(s, t) == Len(s) <= Len(t) /\ SubSeq(t, 1, Len(s)) = s

C17_Order ==
    /\ Keys(defaults) = FirstNames(log, fp, DefaultsRef, 1)
    /\ \A i \in 1..Len(sections) :
           Keys(sections[i].v) = FirstNames(log, fp, SectRef(sections[i].k), 1)

C17_NeverMoved ==
    /\ IsPrefix(Keys(defaults), Keys(defaults'))
    /\ \A i \in 1..Len(sections) :
           /\ Has(sections', sections[i].k)
           /\ IsPrefix(Keys(sections[i].v), Keys(Get(sections', sections[i].k)))

Grows(d, d2) ==
    \A i \in 1..Len(d) :
        /\ Has(d2, d[i].k)
        /\ Get(d2, d[i].k).tag = d[i].v.tag
        /\ d[i].v.tag = "list" => IsPrefix(d[i].v.lines, Get(d2, d[i].k).lines)

\* the step that processes one line keeps every section and every option
C18_LineStep ==
    (Len(fp') = Len(fp) + 1) =>
        /\ Grows(defaults, defaults')
        /\ \A i \in 1..Len(sections) :
               /\ Has(sections', sections[i].k)
               /\ Grows(sections[i].v, Get(sections', sections[i].k))

\* C18: during the scan the stored data only grows: after every line each
\* section and option stored before it is still there, a valueless option
\* is still valueless, a line sequence is still a line sequence and differs
\* from its earlier state only by entries appended at its end.
C18_OnlyGrows == [][C18_LineStep]_vars

\* C18 witness: [s], a=1, the bare A (the same name), then "  2": the bare
\* occurrence has not replaced the value, which has grown by one line
C18_Witness ==
    /\ fp = <<L_s, L_a1, L_A, L_in2>>
    /\ pc = "scan"
    /\ Get(SectionOf(<<"s">>), <<"a">>) = Lines(<<<<"1">>, <<"2">>>>)

\* the lines that synthesized the placeholder section
Synthesized(lg) == {j \in 1..Len(lg) : lg[j].kind = "placeholder"}

\* the placeholder is synthesized at most once, by a line that only blank
\* lines precede
C19_AtMostOnce ==
    /\ Cardinality(Synthesized(log)) <= 1
    /\ \A j \in Synthesized(log) : \A i \in 1..(j - 1) : log[i].kind = "blank"

====
